---- MODULE Spec2Model ----
(***************************************************************************)
(* Model of the AIND-Recognizer word-model selectors and recognizer.       *)
(*   my_recognizer.py      : recognize()                                   *)
(*   my_model_selectors.py : ModelSelector.base_model, SelectorConstant,   *)
(*                           SelectorBIC, SelectorDIC (+ class-level       *)
(*                           result_dict cache), SelectorCV                *)
(* The hmmlearn trainer/scorer is external: each fit()/score() call either *)
(* raises or returns, and which of the two happens is an input.            *)
(***************************************************************************)
EXTENDS Integers, Sequences, FiniteSets, TLC

VARIABLES models, test_set, probabilities, guesses,
          self, hmm, result, result_dict, fit_calls, pc

vars == <<models, test_set, probabilities, guesses,
          self, hmm, result, result_dict, fit_calls, pc>>

(***************************************************************************)
(* Bounds of the model.                                                    *)
(***************************************************************************)
MaxWords == 2      \* words in the models map given to recognize()
MaxItems == 2      \* test items given to recognize()
MaxScore == 1      \* log-likelihoods returned by score() lie in 0..MaxScore
BicMaxN == 3       \* SelectorBIC: state counts lie in 1..BicMaxN
BicMaxLogL == 2    \* SelectorBIC: log-likelihoods lie in 0..BicMaxLogL
MaxFeatures == 1   \* SelectorBIC: len(self.X[0]) lies in 1..MaxFeatures
MaxLogN == 1       \* SelectorBIC: np.log(len(self.X)) lies in 0..MaxLogN
CvMaxN == 2        \* SelectorCV: state counts lie in 1..CvMaxN
CvMaxLogL == 1     \* SelectorCV: held-out log-likelihoods lie in 0..CvMaxLogL
DicMaxWords == 2   \* SelectorDIC: words in the corpus
DicMaxN == 2       \* SelectorDIC: state counts lie in 1..DicMaxN
DicMaxLogL == 1    \* SelectorDIC: log-likelihoods lie in 0..DicMaxLogL

WordName == <<"A", "B", "C", "D", "E", "F">>

(***************************************************************************)
(* Python floats as used by the code: float('-inf'), float('inf'), nan and  *)
(* finite values (kept exact as num/den with den > 0).                     *)
(***************************************************************************)
Fin(a)    == [k |-> "fin", num |-> a, den |-> 1]
Frac(a,b) == [k |-> "fin", num |-> a, den |-> b]
NegInf    == [k |-> "ninf", num |-> 0, den |-> 1]
PosInf    == [k |-> "pinf", num |-> 0, den |-> 1]
NaN       == [k |-> "nan", num |-> 0, den |-> 1]

\* Python's  a > b  on floats
Gt(a, b) ==
    CASE a.k = "nan" \/ b.k = "nan" -> FALSE
      [] a.k = "ninf"               -> FALSE
      [] a.k = "pinf"               -> b.k # "pinf"
      [] b.k = "pinf"               -> FALSE
      [] b.k = "ninf"               -> TRUE
      [] OTHER                      -> a.num * b.den > b.num * a.den

\* Python's  a < b  on floats
Lt(a, b) == Gt(b, a)

\* Python's  a - b  on floats (inf - inf does not occur in the code's uses
\* with b = +-inf; it is nan as in IEEE arithmetic)
Sub(a, b) ==
    CASE a.k = "nan" \/ b.k = "nan"     -> NaN
      [] a.k = "fin" /\ b.k = "fin"     ->
             Frac(a.num * b.den - b.num * a.den, a.den * b.den)
      [] a.k = "fin" /\ b.k = "ninf"    -> PosInf
      [] a.k = "fin" /\ b.k = "pinf"    -> NegInf
      [] a.k = b.k                      -> NaN
      [] OTHER                          -> a

\* the same real number
SameNum(a, b) ==
    /\ a.k = b.k
    /\ a.k = "fin" => a.num * b.den = b.num * a.den

(***************************************************************************)
(* One call of fit() or score(): it raises, or it returns a value.         *)
(***************************************************************************)
Raises     == [exc |-> TRUE, val |-> NaN]
Returns(v) == [exc |-> FALSE, val |-> v]

None == "None"

Range(s) == {s[i] : i \in DOMAIN s}

Idle == "idle"

(***************************************************************************)
(* my_recognizer.py                                                        *)
(***************************************************************************)
Words == {WordName[i] : i \in 1..MaxWords}

\* a dict's iteration order: its keys, each once
ModelMaps ==
    UNION {{s \in [1..len -> Words] : \A i, j \in 1..len : i # j => s[i] # s[j]}
           : len \in 0..MaxWords}

\* what word_model.score(X, lengths) does for word w on a test item
ScoreCalls == {Raises, Returns(NegInf)} \cup {Returns(Fin(v)) : v \in 0..MaxScore}

TestSets ==
    UNION {[num_items : {k}, score : [1..k -> [Words -> ScoreCalls]]]
           : k \in 0..MaxItems}

\* ScanModels with the except branch leaving the failed word out of wp
RECURSIVE ScanModels_DropFailed(_, _, _, _)
ScanModels_DropFailed(ms, item, i, st) ==
    IF i > Len(ms) THEN st
    ELSE LET word == ms[i]
             call == item[word]
         IN IF call.exc
            THEN ScanModels_DropFailed(ms, item, i + 1, st)
            ELSE IF Gt(call.val, st.current_word_prob)
                 THEN ScanModels_DropFailed(ms, item, i + 1,
                          [wp |-> (word :> call.val) @@ st.wp,
                           current_word |-> word,
                           current_word_prob |-> call.val])
                 ELSE ScanModels_DropFailed(ms, item, i + 1,
                          [st EXCEPT !.wp = (word :> call.val) @@ st.wp])

\* ScanModels with  word_score >= current_word_prob  (last maximum wins)
RECURSIVE ScanModels_LastMax(_, _, _, _)
ScanModels_LastMax(ms, item, i, st) ==
    IF i > Len(ms) THEN st
    ELSE LET word == ms[i]
             call == item[word]
         IN IF call.exc
            THEN ScanModels_LastMax(ms, item, i + 1,
                     [st EXCEPT !.wp = (word :> NegInf) @@ st.wp])
            ELSE IF ~Gt(st.current_word_prob, call.val)
                 THEN ScanModels_LastMax(ms, item, i + 1,
                          [wp |-> (word :> call.val) @@ st.wp,
                           current_word |-> word,
                           current_word_prob |-> call.val])
                 ELSE ScanModels_LastMax(ms, item, i + 1,
                          [st EXCEPT !.wp = (word :> call.val) @@ st.wp])

\* the body of  for w in models  (lines 29-40), from the i-th key on
RECURSIVE ScanModels(_, _, _, _)
ScanModels(ms, item, i, st) ==
    IF i > Len(ms) THEN st
    ELSE LET word == ms[i]
             call == item[word]
         IN IF call.exc
            THEN ScanModels(ms, item, i + 1,
                     [st EXCEPT !.wp = (word :> NegInf) @@ st.wp])
            ELSE IF Gt(call.val, st.current_word_prob)
                 THEN ScanModels(ms, item, i + 1,
                          [wp |-> (word :> call.val) @@ st.wp,
                           current_word |-> word,
                           current_word_prob |-> call.val])
                 ELSE ScanModels(ms, item, i + 1,
                          [st EXCEPT !.wp = (word :> call.val) @@ st.wp])

\* the body of  for n in range(test_set.num_items)  (lines 23-43), from item n on
RECURSIVE ScanItems(_, _, _, _)
ScanItems(ms, ts, n, out) ==
    IF n > ts.num_items THEN out
    ELSE LET st == ScanModels(ms, ts.score[n], 1,
                       [wp |-> <<>>,
                        current_word |-> None,
                        current_word_prob |-> NegInf])
         IN ScanItems(ms, ts, n + 1,
                [probabilities |-> Append(out.probabilities, st.wp),
                 guesses |-> Append(out.guesses, st.current_word)])

recognize(ms, ts) ==
    ScanItems(ms, ts, 1, [probabilities |-> <<>>, guesses |-> <<>>])

InitRecognize ==
    /\ models \in ModelMaps
    /\ test_set \in TestSets
    /\ probabilities = <<>>
    /\ guesses = <<>>
    /\ pc = "start"
    /\ self = Idle /\ hmm = Idle /\ result = Idle
    /\ result_dict = Idle /\ fit_calls = 0

Recognize ==
    /\ pc = "start"
    /\ LET out == recognize(models, test_set)
       IN /\ probabilities' = out.probabilities
          /\ guesses' = out.guesses
    /\ pc' = "recognized"
    /\ UNCHANGED <<models, test_set, self, hmm, result, result_dict, fit_calls>>

NextRecognize == Recognize

SpecRecognize == InitRecognize /\ [][NextRecognize]_vars

(***************************************************************************)
(* Claims about recognize()                                                *)
(***************************************************************************)
ItemCall(i, w) == test_set.score[i][w]

\* C1: for a non-empty models map and a test item that every model fails to
\* score, the score table maps every word to negative infinity and the
\* best-guess label equals the first word in the map's iteration order.
C1_AllFailGuessIsFirstWord ==
    pc = "recognized" =>
        \A i \in 1..test_set.num_items :
            (models # <<>> /\ \A w \in Range(models) : ItemCall(i, w).exc) =>
                /\ \A w \in Range(models) : probabilities[i][w] = NegInf
                /\ guesses[i] = models[1]

\* C3: the two returned lists have one entry per test item, entry i belongs
\* to test item i, and every score table has exactly the keys of the models
\* map, with negative infinity for each word whose scoring failed.
C3_OneFullTablePerItem ==
    pc = "recognized" =>
        /\ Len(probabilities) = test_set.num_items
        /\ Len(guesses) = test_set.num_items
        /\ \A i \in 1..test_set.num_items :
              /\ DOMAIN probabilities[i] = Range(models)
              /\ \A w \in Range(models) :
                    probabilities[i][w] =
                        IF ItemCall(i, w).exc THEN NegInf ELSE ItemCall(i, w).val

\* two items with different outcomes, one of them with a failed word
C3_Witness ==
    /\ pc = "recognized"
    /\ test_set.num_items >= 2
    /\ Len(models) >= 2
    /\ ItemCall(1, models[1]).exc
    /\ ~ItemCall(2, models[1]).exc
    /\ ~ItemCall(1, models[2]).exc
    /\ probabilities[1] # probabilities[2]

\* C4: when some model returns a score above negative infinity, the guess is
\* the successfully scored word of maximal score that comes first in the
\* map's iteration order.
C4_GuessIsFirstMaximum ==
    pc = "recognized" =>
        \A i \in 1..test_set.num_items :
            (\E w \in Range(models) :
                ~ItemCall(i, w).exc /\ Gt(ItemCall(i, w).val, NegInf)) =>
            \E j \in 1..Len(models) :
                /\ guesses[i] = models[j]
                /\ ~ItemCall(i, models[j]).exc
                /\ \A h \in 1..Len(models) :
                      ~ItemCall(i, models[h]).exc =>
                          ~Gt(ItemCall(i, models[h]).val, ItemCall(i, models[j]).val)
                /\ \A h \in 1..(j - 1) :
                      \/ ItemCall(i, models[h]).exc
                      \/ Gt(ItemCall(i, models[j]).val, ItemCall(i, models[h]).val)

\* two words tied at the maximum: the first one is the guess
C4_Witness ==
    /\ pc = "recognized"
    /\ test_set.num_items >= 1
    /\ Len(models) >= 2
    /\ ItemCall(1, models[1]) = Returns(Fin(1))
    /\ ItemCall(1, models[2]) = Returns(Fin(1))
    /\ guesses[1] = models[1]

(***************************************************************************)
(* my_model_selectors.py: trained models                                   *)
(* A GaussianHMM object is known by the word whose selector made it, its   *)
(* n_components and the data it was fitted on ("X" is the word's whole     *)
(* data, "fold1".. are cross-validation training splits).  NoModel stands  *)
(* for Python's None where a model is expected.                            *)
(***************************************************************************)
GaussianHMM(w, n, data) == [word |-> w, n_components |-> n, data |-> data]
NoModel == [word |-> None, n_components |-> 0, data |-> None]

\* what fitting and then scoring one GaussianHMM does: fit raises, or fit
\* returns and score raises, or both return
FitRaises     == [fit |-> FALSE, score |-> Raises]
FitThen(call) == [fit |-> TRUE, score |-> call]
HmmRuns(maxLogL) ==
    {FitRaises, FitThen(Raises)} \cup {FitThen(Returns(Fin(v))) : v \in 0..maxLogL}

\* ModelSelector.base_model: h[n] is what hmmlearn does with n states on self.X
base_model(slf, h, num_states) ==
    IF h[num_states].fit
    THEN GaussianHMM(slf.this_word, num_states, "X")
    ELSE NoModel

\* SelectorConstant.select
SelectorConstant_select(slf, h) == base_model(slf, h, slf.n_constant)

\* n_params of SelectorBIC.select (lines 86-89)
n_params(n, n_features) == n * (n - 1) + 2 * n_features * n

\* current_bic = -2 * score + n_params * logN  (line 93)
current_bic(score, n, slf) ==
    Frac(-2 * score.num + n_params(n, slf.n_features) * slf.logN * score.den,
         score.den)

\* SelectorBIC.select with  current_bic <= min_score  (last minimum wins)
RECURSIVE BicLoop_LastMin(_, _, _, _)
BicLoop_LastMin(slf, h, n, st) ==
    IF n > slf.max_n_components THEN st
    ELSE LET model == base_model(slf, h, n)
         IN IF model = NoModel \/ h[n].score.exc
            THEN BicLoop_LastMin(slf, h, n + 1, st)
            ELSE LET bic == current_bic(h[n].score.val, n, slf)
                 IN IF ~Gt(bic, st.min_score)
                    THEN BicLoop_LastMin(slf, h, n + 1,
                             [min_score |-> bic, min_model |-> model])
                    ELSE BicLoop_LastMin(slf, h, n + 1, st)

\* the loop of SelectorBIC.select (lines 81-99), from state count n on;
\* model.score on a None model raises AttributeError, caught by the except
RECURSIVE BicLoop(_, _, _, _)
BicLoop(slf, h, n, st) ==
    IF n > slf.max_n_components THEN st
    ELSE LET model == base_model(slf, h, n)
         IN IF model = NoModel \/ h[n].score.exc
            THEN BicLoop(slf, h, n + 1, st)
            ELSE LET bic == current_bic(h[n].score.val, n, slf)
                 IN IF Lt(bic, st.min_score)
                    THEN BicLoop(slf, h, n + 1,
                             [min_score |-> bic, min_model |-> model])
                    ELSE BicLoop(slf, h, n + 1, st)

SelectorBIC_select(slf, h) ==
    LET st == BicLoop(slf, h, slf.min_n_components,
                      [min_score |-> PosInf, min_model |-> NoModel])
    IN IF st.min_model = NoModel
       THEN base_model(slf, h, slf.n_constant)
       ELSE st.min_model

BicNs == 1..BicMaxN

BicSelves ==
    [this_word : {"A"}, n_constant : BicNs,
     min_n_components : BicNs, max_n_components : BicNs,
     n_features : 1..MaxFeatures, logN : 0..MaxLogN]

InitBIC ==
    /\ self \in BicSelves
    /\ hmm \in [BicNs -> HmmRuns(BicMaxLogL)]
    /\ result = NoModel
    /\ pc = "start"
    /\ models = Idle /\ test_set = Idle /\ probabilities = Idle /\ guesses = Idle
    /\ result_dict = Idle /\ fit_calls = 0

SelectConstant ==
    /\ result' = SelectorConstant_select(self, hmm)
    /\ pc' = "SelectorConstant"
    /\ UNCHANGED <<models, test_set, probabilities, guesses,
                   self, hmm, result_dict, fit_calls>>

SelectBIC ==
    /\ result' = SelectorBIC_select(self, hmm)
    /\ pc' = "SelectorBIC"
    /\ UNCHANGED <<models, test_set, probabilities, guesses,
                   self, hmm, result_dict, fit_calls>>

NextBIC == SelectConstant \/ SelectBIC

SpecBIC == InitBIC /\ [][NextBIC]_vars

(***************************************************************************)
(* Claims about SelectorConstant and SelectorBIC                           *)
(***************************************************************************)
\* C2: select() returns a trained model or propagates a failure; it never
\* returns None as if it were a result.  (No path of the code lets a
\* training failure leave select(), so a result is all there is to see.)
C2_SelectNeverReturnsNone ==
    pc \in {"SelectorConstant", "SelectorBIC"} => result # NoModel

\* the candidates of SelectorBIC that trained and scored
BicSurvivors ==
    {n \in self.min_n_components..self.max_n_components :
        hmm[n].fit /\ ~hmm[n].score.exc}

\* BIC(n) = -2*logL(n) + (n*(n-1) + 2*F*n)*ln(N)
BicValue(n) ==
    -2 * hmm[n].score.val.num
    + (n * (n - 1) + 2 * self.n_features * n) * self.logN

\* C7: SelectorBIC returns the model trained at the smallest n that attains
\* the minimum BIC among the candidates that trained and scored; with no
\* such candidate the result is what training at n_constant gives.
C7_BicSmallestMinimum ==
    pc = "SelectorBIC" =>
        IF BicSurvivors # {}
        THEN /\ result.n_components \in BicSurvivors
             /\ result = GaussianHMM(self.this_word, result.n_components, "X")
             /\ \A m \in BicSurvivors :
                   /\ BicValue(result.n_components) <= BicValue(m)
                   /\ BicValue(m) = BicValue(result.n_components)
                          => result.n_components <= m
        ELSE /\ hmm[self.n_constant].fit =>
                   result = GaussianHMM(self.this_word, self.n_constant, "X")
             /\ ~hmm[self.n_constant].fit => result = NoModel

\* two surviving candidates tied at the minimum and a failed one
C7_Witness ==
    /\ pc = "SelectorBIC"
    /\ \E a, b \in BicSurvivors :
          /\ a < b
          /\ BicValue(a) = BicValue(b)
          /\ result.n_components = a
    /\ \E c \in self.min_n_components..self.max_n_components : c \notin BicSurvivors

(***************************************************************************)
(* my_model_selectors.py: SelectorCV                                       *)
(* h.full[n] is what hmmlearn does with n states on the word's whole data  *)
(* (base_model), h.fold[n][f] what it does when fitted on the training     *)
(* part of fold f and scored on the held-out part.                         *)
(***************************************************************************)
spl == 3

FoldData(f) == <<"fold", f>>

\* for train, test in split_method.split(self.sequences)  (lines 187-198),
\* from fold f on: st.word_model is the local word_model, st.res the list res
\* (its sum and length), st.fits the number of fit() calls made
RECURSIVE CvFolds(_, _, _, _, _)
CvFolds(slf, h, n, f, st) ==
    IF f > spl THEN st
    ELSE LET run == h.fold[n][f]
             fitted == [st EXCEPT !.fits = @ + 1]
         IN IF ~run.fit
            THEN CvFolds(slf, h, n, f + 1, fitted)
            ELSE LET trained == [fitted EXCEPT
                                    !.word_model = GaussianHMM(slf.this_word, n, FoldData(f))]
                 IN IF run.score.exc
                    THEN CvFolds(slf, h, n, f + 1, trained)
                    ELSE CvFolds(slf, h, n, f + 1,
                             [trained EXCEPT !.res_sum = @ + run.score.val.num,
                                             !.res_len = @ + 1])

\* SelectorCV.select without the test on len(self.sequences)
RECURSIVE CvLoop_NoGuard(_, _, _, _)
CvLoop_NoGuard(slf, h, n, st) ==
    IF n > slf.max_n_components THEN st
    ELSE LET after == CvFolds(slf, h, n, 1, [st EXCEPT !.res_sum = 0, !.res_len = 0])
         IN IF after.res_len > 0
            THEN LET avg == Frac(after.res_sum, after.res_len)
                 IN IF Gt(avg, after.max_cv)
                    THEN CvLoop_NoGuard(slf, h, n + 1,
                             [after EXCEPT !.max_cv = avg,
                                           !.max_model = after.word_model])
                    ELSE CvLoop_NoGuard(slf, h, n + 1, after)
            ELSE CvLoop_NoGuard(slf, h, n + 1, after)

\* SelectorCV.select with  avg >= max_cv  (last maximum wins)
RECURSIVE CvLoop_LastMax(_, _, _, _)
CvLoop_LastMax(slf, h, n, st) ==
    IF n > slf.max_n_components THEN st
    ELSE IF slf.n_sequences < spl THEN st
    ELSE LET after == CvFolds(slf, h, n, 1, [st EXCEPT !.res_sum = 0, !.res_len = 0])
         IN IF after.res_len > 0
            THEN LET avg == Frac(after.res_sum, after.res_len)
                 IN IF ~Gt(after.max_cv, avg)
                    THEN CvLoop_LastMax(slf, h, n + 1,
                             [after EXCEPT !.max_cv = avg,
                                           !.max_model = after.word_model])
                    ELSE CvLoop_LastMax(slf, h, n + 1, after)
            ELSE CvLoop_LastMax(slf, h, n + 1, after)

\* the loop of SelectorCV.select (lines 179-205), from state count n on
RECURSIVE CvLoop(_, _, _, _)
CvLoop(slf, h, n, st) ==
    IF n > slf.max_n_components THEN st
    ELSE IF slf.n_sequences < spl THEN st
    ELSE LET after == CvFolds(slf, h, n, 1, [st EXCEPT !.res_sum = 0, !.res_len = 0])
         IN IF after.res_len > 0
            THEN LET avg == Frac(after.res_sum, after.res_len)
                 IN IF Gt(avg, after.max_cv)
                    THEN CvLoop(slf, h, n + 1,
                             [after EXCEPT !.max_cv = avg,
                                           !.max_model = after.word_model])
                    ELSE CvLoop(slf, h, n + 1, after)
            ELSE CvLoop(slf, h, n + 1, after)

\* SelectorCV.select: the model returned and the fit() calls made on folds
SelectorCV_select(slf, h) ==
    LET st == CvLoop(slf, h, slf.min_n_components,
                     [max_cv |-> NegInf, max_model |-> NoModel,
                      word_model |-> NoModel,
                      res_sum |-> 0, res_len |-> 0, fits |-> 0])
    IN [model |-> IF st.max_model = NoModel
                  THEN base_model(slf, h.full, slf.n_constant)
                  ELSE st.max_model,
        fits |-> st.fits]

CvNs == 1..CvMaxN

CvSelves ==
    [this_word : {"A"}, n_constant : CvNs,
     min_n_components : CvNs, max_n_components : CvNs,
     n_sequences : {spl - 1, spl}]

InitCV ==
    /\ self \in CvSelves
    /\ hmm \in [full : [CvNs -> {FitRaises, FitThen(Raises)}],
                fold : [CvNs -> [1..spl -> HmmRuns(CvMaxLogL)]]]
    /\ result = NoModel
    /\ fit_calls = 0
    /\ pc = "start"
    /\ models = Idle /\ test_set = Idle /\ probabilities = Idle /\ guesses = Idle
    /\ result_dict = Idle

SelectCV ==
    /\ LET out == SelectorCV_select(self, hmm)
       IN /\ result' = out.model
          /\ fit_calls' = out.fits
    /\ pc' = "SelectorCV"
    /\ UNCHANGED <<models, test_set, probabilities, guesses, self, hmm, result_dict>>

NextCV == SelectCV

SpecCV == InitCV /\ [][NextCV]_vars

(***************************************************************************)
(* Claims about SelectorCV                                                 *)
(***************************************************************************)
CvRange == self.min_n_components..self.max_n_components

\* what training on the whole data at n_constant gives
CvConstantModel ==
    IF hmm.full[self.n_constant].fit
    THEN GaussianHMM(self.this_word, self.n_constant, "X")
    ELSE NoModel

\* C9: for a word with fewer than 3 sequences no fold is trained at any n
\* and the result is what training on the whole data at n_constant gives.
C9_TooFewSequencesNoFoldTraining ==
    (pc = "SelectorCV" /\ self.n_sequences < 3) =>
        /\ fit_calls = 0
        /\ result = CvConstantModel

\* a word with 2 sequences whose folds would all have trained and scored
C9_Witness ==
    /\ pc = "SelectorCV"
    /\ self.n_sequences = 2
    /\ self.min_n_components < self.max_n_components
    /\ \A n \in CvRange : \A f \in 1..3 : hmm.fold[n][f] = FitThen(Returns(Fin(1)))
    /\ result = GaussianHMM(self.this_word, self.n_constant, "X")

\* the folds of state count n that trained and scored
CvScored(n) == {f \in 1..3 : hmm.fold[n][f].fit /\ ~hmm.fold[n][f].score.exc}

RECURSIVE CvSum(_, _)
CvSum(n, fs) ==
    IF fs = {} THEN 0
    ELSE LET f == CHOOSE x \in fs : TRUE
         IN hmm.fold[n][f].score.val.num + CvSum(n, fs \ {f})

\* average(a) >= average(b), both over at least one fold
CvAvgGeq(a, b) ==
    CvSum(a, CvScored(a)) * Cardinality(CvScored(b))
        >= CvSum(b, CvScored(b)) * Cardinality(CvScored(a))

CvCandidates == {n \in CvRange : CvScored(n) # {}}

\* C10: for a word with at least 3 sequences the returned model was trained
\* at the smallest n that attains the maximum average held-out
\* log-likelihood among the n with a scored fold; with no such n the result
\* is what training on the whole data at n_constant gives.
C10_CvSmallestMaximum ==
    (pc = "SelectorCV" /\ self.n_sequences >= 3) =>
        IF CvCandidates # {}
        THEN /\ result.n_components \in CvCandidates
             /\ result.word = self.this_word
             /\ \E f \in 1..3 : result.data = FoldData(f)
             /\ \A m \in CvCandidates :
                   /\ CvAvgGeq(result.n_components, m)
                   /\ CvAvgGeq(m, result.n_components)
                          => result.n_components <= m
        ELSE result = CvConstantModel

\* the winning n has a failed last fold, and a later n ties with it
C10_Witness ==
    /\ pc = "SelectorCV"
    /\ self.n_sequences >= 3
    /\ \E a, b \in CvCandidates :
          /\ a < b
          /\ result.n_components = a
          /\ CvAvgGeq(a, b) /\ CvAvgGeq(b, a)
          /\ ~hmm.fold[a][3].fit
          /\ Cardinality(CvScored(a)) # Cardinality(CvScored(b))

(***************************************************************************)
(* my_model_selectors.py: SelectorDIC and its class attribute result_dict  *)
(* h[w][n] is what hmmlearn does with n states on the whole data of word   *)
(* w.  The class attribute is None (is_none) or a dict from (w, n) to      *)
(* (model, score).  slf.same_object tells whether self.this_word is the    *)
(* very string object that is the key of self.words (the code compares     *)
(* them with "is not"; an equal string need not be the same object).       *)
(***************************************************************************)
NoDict == [is_none |-> TRUE, entries |-> <<>>]
Dict(d) == [is_none |-> FALSE, entries |-> d]

Entry(model, score) == [model |-> model, score |-> score]

\* lines 124-132 for one (w, n): the entry stored
PrepareEntry(h, w, n) ==
    IF h[w][n].fit /\ ~h[w][n].score.exc
    THEN Entry(GaussianHMM(w, n, "X"), h[w][n].score.val)
    ELSE Entry(NoModel, NegInf)

\* for w in self.words  (lines 123-134), from the i-th word on
RECURSIVE PrepareWords(_, _, _, _, _)
PrepareWords(slf, h, n, i, st) ==
    IF i > Len(slf.words) THEN st
    ELSE LET w == slf.words[i]
             d == (<<w, n>> :> PrepareEntry(h, w, n)) @@ st.local
         IN PrepareWords(slf, h, n, i + 1,
                [local |-> d, class |-> Dict(d), fits |-> st.fits + 1])

\* for n in range(min_n_components, max_n_components + 1)  (lines 122-134)
RECURSIVE PrepareLoop(_, _, _, _)
PrepareLoop(slf, h, n, st) ==
    IF n > slf.max_n_components THEN st
    ELSE PrepareLoop(slf, h, n + 1, PrepareWords(slf, h, n, 1, st))

\* prepare without the test  SelectorDIC.result_dict is not None
prepare_Refill(slf, h, rd) ==
    PrepareLoop(slf, h, slf.min_n_components,
                [local |-> <<>>, class |-> rd, fits |-> 0])

\* SelectorDIC.prepare: the dict returned (local), the class attribute
\* afterwards (class) and the number of fit() calls made (fits)
prepare(slf, h, rd) ==
    IF ~rd.is_none
    THEN [local |-> rd.entries, class |-> rd, fits |-> 0]
    ELSE PrepareLoop(slf, h, slf.min_n_components,
                     [local |-> <<>>, class |-> rd, fits |-> 0])

\* others = [w for w in self.words if w is not self.this_word]  (line 150)
Others(slf) ==
    {slf.words[i] : i \in {j \in 1..Len(slf.words) :
                             slf.words[j] # slf.this_word \/ ~slf.same_object}}

RECURSIVE SumScores(_, _, _)
SumScores(d, n, ws) ==
    IF ws = {} THEN 0
    ELSE LET w == CHOOSE x \in ws : TRUE
         IN d[<<w, n>>].score.num + SumScores(d, n, ws \ {w})

\* np.mean([dict[(w, n)][1] for w in others if dict[(w, n)][0] is not None])
\* (line 151); the mean of an empty list is nan
MeanOthers(d, n, others) ==
    LET kept == {w \in others : d[<<w, n>>].model # NoModel}
    IN IF kept = {} THEN NaN
       ELSE Frac(SumScores(d, n, kept), Cardinality(kept))

\* the loop of SelectorDIC.select (lines 145-157), from state count n on; a
\* key missing from the dict raises KeyError, caught by the except
RECURSIVE DicLoop(_, _, _, _)
DicLoop(slf, d, n, st) ==
    IF n > slf.max_n_components THEN st
    ELSE IF \E w \in Others(slf) \cup {slf.this_word} : <<w, n>> \notin DOMAIN d
    THEN DicLoop(slf, d, n + 1, st)
    ELSE LET key == <<slf.this_word, n>>
             dic == Sub(d[key].score, MeanOthers(d, n, Others(slf)))
         IN IF Gt(dic, st.max_dic)
            THEN DicLoop(slf, d, n + 1,
                     [max_dic |-> dic, max_model |-> d[key].model])
            ELSE DicLoop(slf, d, n + 1, st)

\* SelectorDIC.select: the model returned, the class attribute afterwards
\* and the fit() calls prepare made
SelectorDIC_select(slf, h, rd) ==
    LET p  == prepare(slf, h, rd)
        st == DicLoop(slf, p.local, slf.min_n_components,
                      [max_dic |-> NegInf, max_model |-> NoModel])
    IN [model |-> IF st.max_model = NoModel
                  THEN base_model(slf, h[slf.this_word], slf.n_constant)
                  ELSE st.max_model,
        class |-> p.class,
        fits |-> p.fits]

DicNs == 1..DicMaxN
DicWords == [i \in 1..DicMaxWords |-> WordName[i]]

\* the selectors a run constructs: one corpus, any target word and range
DicSelves ==
    [words : {DicWords}, this_word : Range(DicWords), same_object : BOOLEAN,
     n_constant : DicNs, min_n_components : DicNs, max_n_components : DicNs]

InitDIC ==
    /\ hmm \in [Range(DicWords) -> [DicNs -> HmmRuns(DicMaxLogL)]]
    /\ result_dict = NoDict
    /\ self = Idle
    /\ result = NoModel
    /\ fit_calls = 0
    /\ pc = "start"
    /\ models = Idle /\ test_set = Idle /\ probabilities = Idle /\ guesses = Idle

SelectDIC ==
    /\ \E slf \in DicSelves :
          LET out == SelectorDIC_select(slf, hmm, result_dict)
          IN /\ self' = slf
             /\ result' = out.model
             /\ result_dict' = out.class
             /\ fit_calls' = out.fits
    /\ pc' = "SelectorDIC"
    /\ UNCHANGED <<models, test_set, probabilities, guesses, hmm>>

NextDIC == SelectDIC

SpecDIC == InitDIC /\ [][NextDIC]_vars

(***************************************************************************)
(* Claims about SelectorDIC                                                *)
(***************************************************************************)
\* C5: once the cache holds an entry for a key, that entry is never
\* replaced or removed, and a select() that finds the cache populated makes
\* no fit() call to fill it.
C5_CacheFilledOnce ==
    [][~result_dict.is_none =>
          /\ \A key \in DOMAIN result_dict.entries :
                /\ key \in DOMAIN result_dict'.entries
                /\ result_dict'.entries[key] = result_dict.entries[key]
          /\ fit_calls' = 0]_vars

\* a later select() for a wider range found the cache populated and made no
\* fit() call
C5_Witness ==
    /\ pc = "SelectorDIC"
    /\ ~result_dict.is_none
    /\ fit_calls = 0
    /\ \E n \in self.min_n_components..self.max_n_components :
          <<self.this_word, n>> \notin DOMAIN result_dict.entries

\* the dict the last select() read: what prepare returned to it
DictRead == result_dict.entries

DicRange == self.min_n_components..self.max_n_components

\* C6: when a select() reads the cache, the cache has an entry for every
\* (word, n) with word in that selector's corpus and n in its range.
C6_CacheCompleteWhenRead ==
    pc = "SelectorDIC" =>
        \A w \in Range(self.words) : \A n \in DicRange :
            <<w, n>> \in DOMAIN DictRead

\* the words other than the target word
DicOtherWords == Range(self.words) \ {self.this_word}

\* the other words whose entry at n is not the failure sentinel
DicOthersKept(n) ==
    {v \in DicOtherWords : DictRead[<<v, n>>].model # NoModel}

RECURSIVE DicSum(_, _)
DicSum(n, ws) ==
    IF ws = {} THEN 0
    ELSE LET w == CHOOSE x \in ws : TRUE
         IN DictRead[<<w, n>>].score.num + DicSum(n, ws \ {w})

\* DIC(a) >= DIC(b), each being logL(W, n) minus the mean over the kept others
DicGeq(a, b) ==
    LET W  == self.this_word
        ka == Cardinality(DicOthersKept(a))
        kb == Cardinality(DicOthersKept(b))
    IN (DictRead[<<W, a>>].score.num * ka - DicSum(a, DicOthersKept(a))) * kb
         >= (DictRead[<<W, b>>].score.num * kb - DicSum(b, DicOthersKept(b))) * ka

\* the n at which the target word has a model and some other word has one
DicCandidates ==
    {n \in DicRange : /\ DictRead[<<self.this_word, n>>].model # NoModel
                      /\ DicOthersKept(n) # {}}

\* C8: with the cache holding every entry of the selector's corpus and
\* range, select() returns the cached model of the target word at the
\* smallest n that attains the maximum DIC among the n where the target word
\* did not fail; with no surviving candidate the result is what training at
\* n_constant gives.
C8_DicSmallestMaximum ==
    (pc = "SelectorDIC" /\ C6_CacheCompleteWhenRead) =>
        IF DicCandidates # {}
        THEN /\ result.n_components \in DicCandidates
             /\ result = DictRead[<<self.this_word, result.n_components>>].model
             /\ \A m \in DicCandidates :
                   /\ DicGeq(result.n_components, m)
                   /\ DicGeq(m, result.n_components)
                          => result.n_components <= m
        ELSE result = IF hmm[self.this_word][self.n_constant].fit
                      THEN GaussianHMM(self.this_word, self.n_constant, "X")
                      ELSE NoModel

====
